---- MODULE Spec2Model ----
(***************************************************************************)
(* Model of the MEP Routing push button (script.py, utils.py): model lines *)
(* are turned into MEP curve elements, the elements' connectors are        *)
(* grouped by rounded location, and one fitting is created per group.      *)
(*                                                                         *)
(* Lengths are integers counting 0.0001 model units, so 0.001 (the         *)
(* rounding step of the grouping key) is 10 and 0.01 (the shared-point     *)
(* distance) is 100.  The coordinates of the selected lines are even, so   *)
(* the midpoint of two end points is on the grid and no coordinate lies    *)
(* half way between two rounding steps.                                    *)
(***************************************************************************)
EXTENDS Integers, Sequences, FiniteSets

VARIABLES mep_elements, mep_elements_connectors, connector_groups,
          pc, gi, attempts, calls, outcome

vars == <<mep_elements, mep_elements_connectors, connector_groups,
          pc, gi, attempts, calls, outcome>>

\* Number of model lines the user may have selected.
MaxLines == 5

\* round(p.X, 3): one rounding step, in grid units.
RoundStep == 10

\* p1.DistanceTo(p2) < 0.01, in grid units.
SharedDistance == 100

\* tolerance=0.01 of are_directions_parallel, as its inverse.
InvTolerance == 100

(***************************************************************************)
(* The model lines that can be in the selection, as <<start, end>>.  All   *)
(* of them have an end in the rounding cell of the origin:                 *)
(*   along X; nearly along X (sine 0.0099995) ; along Y; along Y with the  *)
(*   end 0.0004 off the origin; along Z; diagonal in XY; the first line    *)
(*   drawn backwards (both end points shared with it); and a line 0.00057  *)
(*   long whose two ends round to the same key.                            *)
(***************************************************************************)
Lines ==
    { << <<0, 0, 0>>,        <<1000, 0, 0>> >>,
      << <<-1000, -10, 0>>,  <<0, 0, 0>> >>,
      << <<0, 0, 0>>,        <<0, 1000, 0>> >>,
      << <<0, -1000, 0>>,    <<0, 4, 0>> >>,
      << <<0, 0, 0>>,        <<0, 0, 1000>> >>,
      << <<0, 0, 0>>,        <<1000, 1000, 0>> >>,
      << <<1000, 0, 0>>,     <<0, 0, 0>> >>,
      << <<4, 0, 0>>,        <<0, 4, 0>> >> }

---------------------------------------------------------------------------
\* XYZ arithmetic

Sub(a, b) == << a[1] - b[1], a[2] - b[2], a[3] - b[3] >>

Dot(a, b) == a[1] * b[1] + a[2] * b[2] + a[3] * b[3]

CrossProduct(a, b) == << a[2] * b[3] - a[3] * b[2],
                         a[3] * b[1] - a[1] * b[3],
                         a[1] * b[2] - a[2] * b[1] >>

\* Square of p1.DistanceTo(p2).
DistanceSq(p1, p2) == Dot(Sub(p1, p2), Sub(p1, p2))

\* (p1 + p2) * 0.5
Midpoint(p1, p2) == << (p1[1] + p2[1]) \div 2,
                       (p1[2] + p2[2]) \div 2,
                       (p1[3] + p2[3]) \div 2 >>

Abs(x) == IF x < 0 THEN -x ELSE x

RECURSIVE Gcd(_, _)
Gcd(a, b) == IF b = 0 THEN a ELSE Gcd(b, a % b)

\* XYZ.Normalize(): the direction without the length.  The unit vector is
\* not on the grid; the shortest integer vector of the same direction and
\* sense stands for it (the angle between two vectors does not depend on
\* their lengths).
Normalize(v) ==
    LET g == Gcd(Gcd(Abs(v[1]), Abs(v[2])), Abs(v[3]))
    IN  IF g = 0 THEN v ELSE << v[1] \div g, v[2] \div g, v[3] \div g >>

\* round(x, 3), in rounding steps.
Round3(x) == (x + (RoundStep \div 2)) \div RoundStep

---------------------------------------------------------------------------
\* Elements and connectors

None == "None"

\* Duct.Create / Pipe.Create / CableTray.Create / Conduit.Create
create_MEPcurve_element(id, start, end) ==
    [Id |-> id, Curve |-> << start, end >>]

\* duct.ConnectorManager.Connectors, in enumeration order: one connector at
\* each end of the curve.
Connectors(duct) ==
    << [Owner |-> duct.Id, End |-> 0, Origin |-> duct.Curve[1]],
       [Owner |-> duct.Id, End |-> 1, Origin |-> duct.Curve[2]] >>

Range(s) == { s[i] : i \in DOMAIN s }

\* The key without the Z coordinate.
LocationKey_without_z(p) == << Round3(p[1]), Round3(p[2]), 0 >>

LocationKey(p) == << Round3(p[1]), Round3(p[2]), Round3(p[3]) >>

RECURSIVE GroupInto(_, _)
GroupInto(conns, grouped) ==
    IF conns = << >> THEN grouped
    ELSE LET c   == Head(conns)
             key == LocationKey(c.Origin)
             at  == { i \in DOMAIN grouped : grouped[i].key = key }
         IN  IF at = {}
             THEN GroupInto(Tail(conns),
                            Append(grouped, [key |-> key, conns |-> << c >>]))
             ELSE LET i == CHOOSE j \in at : TRUE
                  IN  GroupInto(Tail(conns),
                                [grouped EXCEPT ![i].conns = Append(@, c)])

\* The dictionary, as the sequence of its entries in the order their keys
\* were first seen.  The loop over connector_groups.values() visits each
\* entry once; create_fitting reads nothing of an earlier turn, so what
\* happens to a group does not depend on the order of the visits.
group_MEPcuve_element_connectors_by_location(MEPcuve_element_connectors) ==
    GroupInto(MEPcuve_element_connectors, << >>)

filter_MEPcurve_elements_using_connectors(connectors, all_MEPcurve_elements) ==
    LET connector_owner_ids == { c.Owner : c \in Range(connectors) }
        InOwners(duct) == duct.Id \in connector_owner_ids
    IN  SelectSeq(all_MEPcurve_elements, InOwners)

\* The end-point pairs in the order of the two nested loops.
EndPointPairs == << <<1, 1>>, <<1, 2>>, <<2, 1>>, <<2, 2>> >>

\* A shared point only where two end points are exactly equal.
find_shared_point_between_curves_exact(c1, c2) ==
    LET hits == { k \in DOMAIN EndPointPairs :
                    c1[EndPointPairs[k][1]] = c2[EndPointPairs[k][2]] }
    IN  IF hits = {} THEN None
        ELSE LET k == CHOOSE h \in hits : \A o \in hits : h <= o
             IN  c1[EndPointPairs[k][1]]

find_shared_point_between_curves(c1, c2) ==
    LET hits == { k \in DOMAIN EndPointPairs :
                    DistanceSq(c1[EndPointPairs[k][1]], c2[EndPointPairs[k][2]])
                        < SharedDistance * SharedDistance }
    IN  IF hits = {} THEN None
        ELSE LET k == CHOOSE h \in hits : \A o \in hits : h <= o
             IN  Midpoint(c1[EndPointPairs[k][1]], c2[EndPointPairs[k][2]])

\* The Location of a created duct, pipe, cable tray or conduit is a
\* LocationCurve, so the curve is never None here.
get_MEPcurve_element_direction(MEPcurve_element) ==
    Normalize(Sub(MEPcurve_element.Curve[2], MEPcurve_element.Curve[1]))

\* math.sin(v1.AngleTo(v2)) < tolerance.  The angle is in [0, pi], where
\* the sine is not negative, and sin^2 = |v1 x v2|^2 / (|v1|^2 |v2|^2).
are_directions_parallel(v1, v2) ==
    LET c == CrossProduct(v1, v2)
    IN  Dot(c, c) * InvTolerance * InvTolerance < Dot(v1, v1) * Dot(v2, v2)

\* sorted(connectors, key=distance)[0]: the sort is stable, the first
\* enumerated connector wins a tie.
MEPcurve_element_nearest_connector_to_point(MEPcurve_element, point) ==
    LET connectors == Connectors(MEPcurve_element)
    IN  IF DistanceSq(connectors[2].Origin, point)
             < DistanceSq(connectors[1].Origin, point)
        THEN connectors[2] ELSE connectors[1]

---------------------------------------------------------------------------
\* create_fitting: the junction constructor calls it makes, as a sequence
\* of at most one [kind, args] record.

\* Groups of four elements rejected too.
RejectedCount_above3(count) == count < 2 \/ count > 3

RejectedCount(count) == count < 2 \/ count > 4

\* A union only for directions of the same sense (a cosine test).
create_fitting_count2_same_sense(conn1, conn2, dir1, dir2) ==
    IF are_directions_parallel(dir1, dir2) /\ Dot(dir1, dir2) > 0
    THEN << [kind |-> "union", args |-> << conn1, conn2 >>] >>
    ELSE << [kind |-> "elbow", args |-> << conn1, conn2 >>] >>

create_fitting_count2(conn1, conn2, dir1, dir2) ==
    IF are_directions_parallel(dir1, dir2)
    THEN << [kind |-> "union", args |-> << conn1, conn2 >>] >>
    ELSE << [kind |-> "elbow", args |-> << conn1, conn2 >>] >>

\* The tee with the branch connector first.
create_fitting_count3_branch_first(conn1, conn2, conn3, dir1, dir2, dir3) ==
    IF are_directions_parallel(dir1, dir2)
    THEN << [kind |-> "tee", args |-> << conn3, conn1, conn2 >>] >>
    ELSE IF are_directions_parallel(dir1, dir3)
    THEN << [kind |-> "tee", args |-> << conn2, conn1, conn3 >>] >>
    ELSE << [kind |-> "tee", args |-> << conn1, conn2, conn3 >>] >>

create_fitting_count3(conn1, conn2, conn3, dir1, dir2, dir3) ==
    IF are_directions_parallel(dir1, dir2)
    THEN << [kind |-> "tee", args |-> << conn1, conn2, conn3 >>] >>
    ELSE IF are_directions_parallel(dir1, dir3)
    THEN << [kind |-> "tee", args |-> << conn3, conn1, conn2 >>] >>
    ELSE << [kind |-> "tee", args |-> << conn3, conn2, conn1 >>] >>

\* The cross with the pair (1,4) tested before the pair (1,3).
create_fitting_count4_pair14_first(conn1, conn2, conn3, conn4, dir1, dir2, dir3, dir4) ==
    IF are_directions_parallel(dir1, dir2)
    THEN << [kind |-> "cross", args |-> << conn1, conn2, conn3, conn4 >>] >>
    ELSE IF are_directions_parallel(dir1, dir4)
    THEN << [kind |-> "cross", args |-> << conn1, conn4, conn2, conn3 >>] >>
    ELSE IF are_directions_parallel(dir1, dir3)
    THEN << [kind |-> "cross", args |-> << conn1, conn3, conn2, conn4 >>] >>
    ELSE << >>

create_fitting_count4(conn1, conn2, conn3, conn4, dir1, dir2, dir3, dir4) ==
    IF are_directions_parallel(dir1, dir2)
    THEN << [kind |-> "cross", args |-> << conn1, conn2, conn3, conn4 >>] >>
    ELSE IF are_directions_parallel(dir1, dir3)
    THEN << [kind |-> "cross", args |-> << conn1, conn3, conn2, conn4 >>] >>
    ELSE IF are_directions_parallel(dir1, dir4)
    THEN << [kind |-> "cross", args |-> << conn1, conn4, conn2, conn3 >>] >>
    ELSE << >>

create_fitting(ducts) ==
    LET count == Len(ducts)
    IN  IF RejectedCount(count) THEN << >>
        ELSE
        LET intersection ==
                find_shared_point_between_curves(ducts[1].Curve, ducts[2].Curve)
            conn(i) ==
                MEPcurve_element_nearest_connector_to_point(ducts[i], intersection)
            dir(i) == get_MEPcurve_element_direction(ducts[i])
        IN  IF intersection = None THEN << >>
            ELSE IF count = 2
            THEN create_fitting_count2(conn(1), conn(2), dir(1), dir(2))
            ELSE IF count = 3
            THEN create_fitting_count3(conn(1), conn(2), conn(3),
                                       dir(1), dir(2), dir(3))
            ELSE create_fitting_count4(conn(1), conn(2), conn(3), conn(4),
                                       dir(1), dir(2), dir(3), dir(4))

---------------------------------------------------------------------------
\* script.py

Init ==
    /\ mep_elements = << >>
    /\ mep_elements_connectors = << >>
    /\ connector_groups = << >>
    /\ pc = "create"
    /\ gi = 0
    /\ attempts = << >>
    /\ calls = << >>
    /\ outcome = << >>

\* The curves of the elements created so far.
CreatedCurves == { mep_elements[i].Curve : i \in DOMAIN mep_elements }

\* One turn of "for mline in selected_model_lines": the selection holds
\* distinct model lines, at most MaxLines of them.
CreateElement ==
    /\ pc = "create"
    /\ Len(mep_elements) < MaxLines
    /\ \E mline \in Lines :
         /\ mline \notin CreatedCurves
         /\ LET duct == create_MEPcurve_element(Len(mep_elements) + 1,
                                                mline[1], mline[2])
            IN  /\ mep_elements' = Append(mep_elements, duct)
                /\ mep_elements_connectors' =
                       mep_elements_connectors \o Connectors(duct)
    /\ UNCHANGED <<connector_groups, pc, gi, attempts, calls, outcome>>

\* The selection is not empty.  t.Commit(), the grouping, and the start of
\* the fittings transaction.
GroupConnectors ==
    /\ pc = "create"
    /\ mep_elements # << >>
    /\ connector_groups' =
           group_MEPcuve_element_connectors_by_location(mep_elements_connectors)
    /\ pc' = "fit"
    /\ gi' = 1
    /\ UNCHANGED <<mep_elements, mep_elements_connectors, attempts, calls, outcome>>

\* The calls create_fitting makes for the group at index i.
GroupCalls(i) ==
    create_fitting(
        filter_MEPcurve_elements_using_connectors(connector_groups[i].conns,
                                                  mep_elements))

\* No except block: the exception leaves the loop.
next_group_after_raise(i, n) == n + 1

\* The index of the group the loop turns to after the except block.
next_group_after_except(i, n) == i + 1

\* One turn of "for group in connector_groups.values()" in which nothing
\* is raised: create_fitting makes no call, or the constructor succeeds.
FittingReturns ==
    /\ pc = "fit"
    /\ gi <= Len(connector_groups)
    /\ attempts' = Append(attempts, gi)
    /\ calls' = Append(calls, GroupCalls(gi))
    /\ outcome' = Append(outcome, "returned")
    /\ gi' = gi + 1
    /\ UNCHANGED <<mep_elements, mep_elements_connectors, connector_groups, pc>>

\* One turn in which the junction constructor raises: the except block
\* prints the traceback and the loop goes on.
FittingRaises ==
    /\ pc = "fit"
    /\ gi <= Len(connector_groups)
    /\ GroupCalls(gi) # << >>
    /\ attempts' = Append(attempts, gi)
    /\ calls' = Append(calls, GroupCalls(gi))
    /\ outcome' = Append(outcome, "exception")
    /\ gi' = next_group_after_except(gi, Len(connector_groups))
    /\ UNCHANGED <<mep_elements, mep_elements_connectors, connector_groups, pc>>

\* t.Commit() and tg.Assimilate() after the loop.
CommitFittings ==
    /\ pc = "fit"
    /\ gi > Len(connector_groups)
    /\ pc' = "done"
    /\ UNCHANGED <<mep_elements, mep_elements_connectors, connector_groups,
                   gi, attempts, calls, outcome>>

Next ==
    \/ CreateElement
    \/ GroupConnectors
    \/ FittingReturns
    \/ FittingRaises
    \/ CommitFittings

Spec == Init /\ [][Next]_vars

---------------------------------------------------------------------------
\* Vocabulary of the properties

\* The elements that own the connectors of group g, in creation order.
Ducts(g) ==
    filter_MEPcurve_elements_using_connectors(connector_groups[g].conns,
                                              mep_elements)

Dir(duct) == get_MEPcurve_element_direction(duct)

Parallel(d1, d2) == are_directions_parallel(Dir(d1), Dir(d2))

\* The point create_fitting measures the connectors of group g against.
SharedPoint(g) ==
    find_shared_point_between_curves(Ducts(g)[1].Curve, Ducts(g)[2].Curve)

\* c is a connector of duct, and no connector of duct is nearer to point.
IsNearestOf(c, duct, point) ==
    /\ c \in Range(Connectors(duct))
    /\ \A o \in Range(Connectors(duct)) :
           DistanceSq(c.Origin, point) <= DistanceSq(o.Origin, point)

\* call passes, in this order, the nearest connectors of the elements of
\* group g at the positions order[1], order[2], ... of Ducts(g).
PassesInOrder(call, g, order) ==
    /\ Len(call.args) = Len(order)
    /\ \A i \in DOMAIN order :
           IsNearestOf(call.args[i], Ducts(g)[order[i]], SharedPoint(g))

\* The turns of the fitting loop made so far: turn k worked on group
\* attempts[k], made the calls calls[k] and ended as outcome[k].
Turns == DOMAIN attempts

---------------------------------------------------------------------------
\* C1: a constructor failure in one group never stops the loop: when the
\* script ends, create_fitting has been attempted exactly once for every
\* group, in iteration order (and at every moment of the loop, for every
\* group before the current one).
C1_EveryGroupAttempted ==
    /\ pc = "fit" => attempts = [i \in 1 .. (gi - 1) |-> i]
    /\ pc = "done" => attempts = [i \in 1 .. Len(connector_groups) |-> i]

\* The script has ended, a constructor raised in some group, and a later
\* group still got its constructor call.
C1_Witness ==
    /\ pc = "done"
    /\ \E k \in Turns : \E j \in Turns :
           /\ k < j
           /\ outcome[k] = "exception"
           /\ calls[j] # << >>

---------------------------------------------------------------------------
\* C2 as stated: a group of 2 to 4 connectors gets exactly one constructor
\* call, a group of 1 or of more than 4 connectors gets none.
C2_OneCallPerConnectorCount ==
    \A k \in Turns :
        LET n == Len(connector_groups[attempts[k]].conns)
        IN  Len(calls[k]) = IF 2 <= n /\ n <= 4 THEN 1 ELSE 0

\* The first element of group g is parallel to another of its elements.
FirstHasParallel(g) ==
    \E j \in 2 .. Len(Ducts(g)) : Parallel(Ducts(g)[1], Ducts(g)[j])

\* C2 amended: a group gets exactly one constructor call when its
\* connectors are owned by 2 or 3 distinct elements, or by 4 distinct
\* elements the first of which is parallel to one of the other three; in
\* every other case it gets none.
C2_OneCallPerOwnerCount ==
    \A k \in Turns :
        LET g == attempts[k]
            n == Len(Ducts(g))
        IN  Len(calls[k]) =
                IF n \in {2, 3} \/ (n = 4 /\ FirstHasParallel(g)) THEN 1 ELSE 0

\* A group of four connectors of four elements, the first parallel to none
\* of the others, was processed without a constructor call.
C2_Witness ==
    \E k \in Turns :
        LET g == attempts[k]
        IN  /\ Len(connector_groups[g].conns) = 4
            /\ Len(Ducts(g)) = 4
            /\ ~ FirstHasParallel(g)
            /\ calls[k] = << >>

---------------------------------------------------------------------------
\* C3: for a group of exactly 2 elements (they share an end point)
\* create_fitting makes exactly one call: the union constructor if the two
\* directions are parallel or antiparallel, the elbow constructor if not,
\* with the nearest connector of the first element and then that of the
\* second.
C3_UnionOrElbow ==
    \A k \in Turns :
        LET g == attempts[k]
        IN  Len(Ducts(g)) = 2 =>
                /\ SharedPoint(g) # None
                /\ Len(calls[k]) = 1
                /\ calls[k][1].kind =
                       IF Parallel(Ducts(g)[1], Ducts(g)[2])
                       THEN "union" ELSE "elbow"
                /\ PassesInOrder(calls[k][1], g, << 1, 2 >>)

\* A union was made of two elements that point in opposite senses.
C3_Witness ==
    \E k \in Turns :
        LET g == attempts[k]
        IN  /\ Len(Ducts(g)) = 2
            /\ Dot(Dir(Ducts(g)[1]), Dir(Ducts(g)[2])) < 0
            /\ calls[k][1].kind = "union"

---------------------------------------------------------------------------
\* The pairs of positions of a group of three elements that are parallel.
ParallelPairs3(g) ==
    { p \in { << 1, 2 >>, << 1, 3 >>, << 2, 3 >> } :
        Parallel(Ducts(g)[p[1]], Ducts(g)[p[2]]) }

\* The position of the branch of a group of three elements of which
\* exactly two are parallel.
Branch(g) ==
    CHOOSE b \in 1 .. 3 : \A p \in ParallelPairs3(g) : b # p[1] /\ b # p[2]

\* The positions of the two through elements, in creation order.
Through(g) ==
    LET p == CHOOSE q \in ParallelPairs3(g) : TRUE IN p

\* C4 as stated: for a group of exactly 3 elements of which exactly two
\* are parallel, the tee constructor gets the branch connector first and
\* then the two through connectors in their original relative order.
C4_BranchFirst ==
    \A k \in Turns :
        LET g == attempts[k]
        IN  (Len(Ducts(g)) = 3 /\ Cardinality(ParallelPairs3(g)) = 1) =>
                /\ Len(calls[k]) = 1
                /\ calls[k][1].kind = "tee"
                /\ PassesInOrder(calls[k][1], g,
                                 << Branch(g), Through(g)[1], Through(g)[2] >>)

\* C4 amended: for such a group the tee constructor gets the branch
\* connector last, after the two through connectors; these come in their
\* original order when the branch is the third element, and the third
\* element's connector comes first when the branch is the first or the
\* second element.
C4_BranchLast ==
    \A k \in Turns :
        LET g == attempts[k]
        IN  (Len(Ducts(g)) = 3 /\ Cardinality(ParallelPairs3(g)) = 1) =>
                /\ Len(calls[k]) = 1
                /\ calls[k][1].kind = "tee"
                /\ PassesInOrder(calls[k][1], g,
                       IF Branch(g) = 3
                       THEN << Through(g)[1], Through(g)[2], Branch(g) >>
                       ELSE << Through(g)[2], Through(g)[1], Branch(g) >>)

\* A tee was made where the second element is the branch: the call passes
\* the connectors of the third, the first and the second element.
C4_Witness ==
    \E k \in Turns :
        LET g == attempts[k]
        IN  /\ Len(Ducts(g)) = 3
            /\ Cardinality(ParallelPairs3(g)) = 1
            /\ Branch(g) = 2
            /\ calls[k] # << >>
            /\ calls[k][1].args[1].Owner = Ducts(g)[3].Id
            /\ calls[k][1].args[3].Owner = Ducts(g)[2].Id

---------------------------------------------------------------------------
\* The positions, among the last three of a group of four elements, of the
\* elements parallel to the first.
ParallelToFirst(g) == { j \in 2 .. 4 : Parallel(Ducts(g)[1], Ducts(g)[j]) }

\* The positions 2 .. 4 without j, in increasing order.
Others(j) == IF j = 2 THEN << 3, 4 >> ELSE IF j = 3 THEN << 2, 4 >> ELSE << 2, 3 >>

\* C5: for a group of exactly 4 elements the pairs (1,2), (1,3), (1,4) are
\* tested in this order; the first parallel one, (1,j), gives the call
\* cross(conn1, connj, and the other two in their order), and there is no
\* call when none of the three pairs is parallel.
C5_CrossPriority ==
    \A k \in Turns :
        LET g == attempts[k]
        IN  Len(Ducts(g)) = 4 =>
                IF ParallelToFirst(g) = {}
                THEN calls[k] = << >>
                ELSE LET j == CHOOSE m \in ParallelToFirst(g) :
                                  \A o \in ParallelToFirst(g) : m <= o
                     IN  /\ Len(calls[k]) = 1
                         /\ calls[k][1].kind = "cross"
                         /\ PassesInOrder(calls[k][1], g, << 1, j >> \o Others(j))

\* A cross was made of a group with 1 || 3 and 2 || 4 but not 1 || 2, and
\* the call passes the connectors of the elements 1, 3, 2, 4.
C5_Witness ==
    \E k \in Turns :
        LET g == attempts[k]
        IN  /\ Len(Ducts(g)) = 4
            /\ Parallel(Ducts(g)[1], Ducts(g)[3])
            /\ Parallel(Ducts(g)[2], Ducts(g)[4])
            /\ ~ Parallel(Ducts(g)[1], Ducts(g)[2])
            /\ calls[k] # << >>
            /\ [i \in 1 .. 4 |-> calls[k][1].args[i].Owner]
                   = << Ducts(g)[1].Id, Ducts(g)[3].Id,
                        Ducts(g)[2].Id, Ducts(g)[4].Id >>

\* The element that owns connector c.
OwnerOf(c) == mep_elements[c.Owner]

\* C6 as stated: every cross is built from two collinear pairs: the owners
\* of its first and second argument are parallel, and so are the owners of
\* its third and fourth argument.
C6_CrossOfTwoCollinearPairs ==
    \A k \in Turns :
        \A i \in DOMAIN calls[k] :
            calls[k][i].kind = "cross" =>
                /\ Parallel(OwnerOf(calls[k][i].args[1]), OwnerOf(calls[k][i].args[2]))
                /\ Parallel(OwnerOf(calls[k][i].args[3]), OwnerOf(calls[k][i].args[4]))

\* C7 as stated: a group of four elements no two of which are parallel
\* gets no constructor call and leaves a recorded UnclassifiableTopology
\* outcome.
C7_UnclassifiableRecorded ==
    \A k \in Turns :
        LET g == attempts[k]
        IN  (/\ Len(Ducts(g)) = 4
             /\ \A i \in 1 .. 4 : \A j \in 1 .. 4 :
                    i < j => ~ Parallel(Ducts(g)[i], Ducts(g)[j]))
            => /\ calls[k] = << >>
               /\ outcome[k] = "UnclassifiableTopology"

---------------------------------------------------------------------------
\* C8 as stated: the connectors of a group belong to pairwise distinct
\* elements.
C8_DistinctOwners ==
    \A g \in DOMAIN connector_groups :
        LET conns == connector_groups[g].conns
        IN  \A i \in DOMAIN conns : \A j \in DOMAIN conns :
                i # j => conns[i].Owner # conns[j].Owner

\* C8 amended: an element has both of its ends in one group only if it is
\* shorter than the diagonal of a rounding cell (0.001 * sqrt(3)); the
\* connectors of the longer elements of a group belong to pairwise
\* distinct elements.
C8_DistinctOwnersUnlessShort ==
    \A g \in DOMAIN connector_groups :
        LET conns == connector_groups[g].conns
        IN  \A i \in DOMAIN conns : \A j \in DOMAIN conns :
                (i # j /\ conns[i].Owner = conns[j].Owner) =>
                    DistanceSq(conns[i].Origin, conns[j].Origin)
                        < 3 * RoundStep * RoundStep

\* The connectors were grouped, and some group holds the ends of three or
\* more elements, one of them running along Z, none of them twice.
C8_Witness ==
    /\ pc = "fit"
    /\ \E g \in DOMAIN connector_groups :
           LET conns == connector_groups[g].conns
           IN  /\ Len(conns) >= 3
               /\ Len(Ducts(g)) = Len(conns)
               /\ \E i \in DOMAIN conns :
                      LET c == OwnerOf(conns[i]).Curve
                      IN  c[1][1] = c[2][1] /\ c[1][2] = c[2][2]

---------------------------------------------------------------------------
\* C9: in every group whose connectors are owned by 2 to 4 distinct
\* elements, the curves of the first two of them have a shared point, so
\* create_fitting does not give up before choosing a constructor.
C9_SharedPointFound ==
    \A g \in DOMAIN connector_groups :
        (2 <= Len(Ducts(g)) /\ Len(Ducts(g)) <= 4) => SharedPoint(g) # None

\* A group of 2 to 4 elements was processed whose first two elements do
\* not end at exactly the same point; their shared point is the midpoint.
C9_Witness ==
    \E k \in Turns :
        LET g == attempts[k]
        IN  /\ 2 <= Len(Ducts(g)) /\ Len(Ducts(g)) <= 4
            /\ SharedPoint(g) # None
            /\ SharedPoint(g) \notin
                   { Ducts(g)[1].Curve[1], Ducts(g)[1].Curve[2] }
            /\ calls[k] # << >>

\* C10 as stated: every connector passed to a constructor is a member of
\* the group being processed, one per owning element.
C10_ArgsAreGroupMembers ==
    \A k \in Turns :
        \A i \in DOMAIN calls[k] :
            LET args == calls[k][i].args
            IN  /\ \A a \in DOMAIN args :
                       args[a] \in Range(connector_groups[attempts[k]].conns)
                /\ \A a \in DOMAIN args : \A b \in DOMAIN args :
                       a # b => args[a].Owner # args[b].Owner

====
